---- MODULE Spec2Model ----
(***************************************************************************)
(* Readiness-polling loops of the football-intro-app deployment scripts.   *)
(*                                                                         *)
(* Every script re-implements the same wait: evaluate a readiness check,   *)
(* sleep, repeat until the check holds or a budget is used up.  The copies *)
(* differ in the loop shape, in what they do with an exception raised by   *)
(* the check, and in how they read the check's output.  Each copy is a     *)
(* "kind" of wait below; the wait is a small state machine whose position  *)
(* is wpc.  A second specification runs main() of deploy-monitoring-stack, *)
(* which calls the wait three times between its manifests; a third runs    *)
(* two calls of a wait function side by side; a fourth runs main() of the  *)
(* deploy scripts and of setup-cilium, with Ctrl-C during the wait; a     *)
(* fifth runs main() of the helper scripts (monitoring setup, Grafana fix, *)
(* network-policy test and menu, port forwards).                           *)
(***************************************************************************)
EXTENDS Integers, Sequences, FiniteSets, TLC

(* ------------------------------ bounds -------------------------------- *)

\* largest timeout argument passed to a wait function
MaxTimeout == 16
\* longest time (seconds) one evaluation of a check may take
MaxCheckDur == 1
\* largest number of container statuses one kubectl query reports
MaxPods == 2
\* largest timeout of the two waits that run side by side
MaxPairTimeout == 11
\* longest answer typed at the prompt of setup-cilium and at the menu of
\* apply-network-policies
MaxAnswerLen == 2
\* longest answer typed at a 'Continue? (yes/no)' prompt
MaxContinueLen == 3

(* ------------------------- program constants -------------------------- *)

PodInterval == 5
CiliumInterval == 10
HttpInterval == 1
DefaultTimeout == 120
CiliumTimeout == 300
ServiceTimeout == 30
SettleDelay == 10
HttpOk == 200

(* --------------------------- kinds of wait ---------------------------- *)

\* wait functions: the timeout is an argument
FunctionKinds == {"check_pods_ready", "wait_for_pods", "wait_for_pod",
                  "check_service", "check_url"}
\* loops written inline in a main(): the timeout is a local constant
InlineKinds == {"cilium_inline", "full_stack_inline", "with_monitoring_inline"}
Kinds == FunctionKinds \cup InlineKinds

\* `while elapsed < timeout` loops
WhileKinds == {"check_pods_ready", "wait_for_pods", "wait_for_pod",
               "cilium_inline", "full_stack_inline", "with_monitoring_inline"}
\* `for _ in range(timeout)` loops
ForKinds == {"check_service", "check_url"}
\* loops whose check queries pods with kubectl
KubectlKinds == WhileKinds
\* loops whose check is an HTTP GET
HttpKinds == ForKinds

\* the argument of time.sleep() inside the loop
Interval(k) ==
  CASE k \in {"check_pods_ready", "wait_for_pods", "wait_for_pod",
              "full_stack_inline", "with_monitoring_inline"} -> PodInterval
    [] k = "cilium_inline" -> CiliumInterval
    [] k \in ForKinds -> HttpInterval

\* the time.sleep(10) that opens the wait step of an inline loop
Settle(k) ==
  IF k \in {"full_stack_inline", "with_monitoring_inline"} THEN SettleDelay ELSE 0

\* the timeout local of an inline loop
InlineTimeout(k) == IF k = "cilium_inline" THEN CiliumTimeout ELSE DefaultTimeout

\* TRUE when the evaluation sits inside a bare `try: ... except:`
Swallows(k) ==
  k \in {"check_pods_ready", "cilium_inline", "full_stack_inline",
         "with_monitoring_inline", "check_service", "check_url"}

\* TRUE when the loop prints "Waiting... (N seconds)" before each sleep
Prints(k) ==
  k \in {"check_pods_ready", "cilium_inline", "full_stack_inline",
         "with_monitoring_inline"}

(* ----------------------- the check's output text ---------------------- *)

\* the characters of one word of kubectl's jsonpath output
Chars(tok) ==
  CASE tok = "true" -> <<"t", "r", "u", "e">>
    [] tok = "false" -> <<"f", "a", "l", "s", "e">>
    [] tok = "Running" -> <<"R", "u", "n", "n", "i", "n", "g">>
    [] tok = "Pending" -> <<"P", "e", "n", "d", "i", "n", "g">>

\* result.stdout: the words of a jsonpath [*] query, separated by one space
RECURSIVE Stdout(_)
Stdout(toks) ==
  IF toks = <<>> THEN <<>>
  ELSE IF Len(toks) = 1 THEN Chars(Head(toks))
  ELSE Chars(Head(toks)) \o <<" ">> \o Stdout(Tail(toks))

\* Python's `needle in hay` on strings
Contains(hay, needle) ==
  \E i \in 0..(Len(hay) - Len(needle)) : SubSeq(hay, i + 1, i + Len(needle)) = needle

\* Python's str.strip().split(): the maximal runs of non-space characters
RECURSIVE Split(_, _)
Split(s, cur) ==
  IF s = <<>> THEN (IF cur = <<>> THEN <<>> ELSE <<cur>>)
  ELSE IF Head(s) = " "
       THEN (IF cur = <<>> THEN Split(Tail(s), <<>>)
             ELSE <<cur>> \o Split(Tail(s), <<>>))
       ELSE Split(Tail(s), Append(cur, Head(s)))

(* ------------------------ the external condition --------------------- *)

\* The state of the cluster as one evaluation of the check would see it:
\* exc     the call itself raises (subprocess.run or urlopen fails)
\* statuses the words kubectl prints (empty: no pods, or kubectl failed)
\* http    the status of the HTTP response
RECURSIVE SeqsUpTo(_, _)
SeqsUpTo(S, n) ==
  IF n = 0 THEN {<<>>}
  ELSE SeqsUpTo(S, n - 1) \cup
       {Append(s, x) : s \in {t \in SeqsUpTo(S, n - 1) : Len(t) = n - 1}, x \in S}

Words(k) == IF k = "cilium_inline" THEN {"Running", "Pending"} ELSE {"true", "false"}

Worlds(k) ==
  IF k \in KubectlKinds
  THEN {[exc |-> FALSE, statuses |-> s, http |-> 0] : s \in SeqsUpTo(Words(k), MaxPods)}
       \cup {[exc |-> TRUE, statuses |-> <<>>, http |-> 0]}
  ELSE {[exc |-> FALSE, statuses |-> <<>>, http |-> HttpOk],
        \* a response that is not an error and not 200 (204 No Content)
        [exc |-> FALSE, statuses |-> <<>>, http |-> HttpOk + 4],
        [exc |-> TRUE, statuses |-> <<>>, http |-> 0]}

\* the readiness test each copy applies to the output of a call that returned
IsReady(k, w) ==
  CASE k \in {"check_pods_ready", "full_stack_inline"} ->
         Contains(Stdout(w.statuses), Chars("true"))
    [] k \in {"wait_for_pods", "wait_for_pod"} ->
         Stdout(w.statuses) # <<>> /\ Contains(Stdout(w.statuses), Chars("true"))
    [] k = "cilium_inline" ->
         Contains(Stdout(w.statuses), Chars("Running"))
    [] k = "with_monitoring_inline" ->
         LET parts == Split(Stdout(w.statuses), <<>>)
         IN \A i \in 1..Len(parts) : parts[i] = Chars("true")
    [] k \in HttpKinds -> w.http = HttpOk

\* a loop condition that stops one interval early
LoopGuardEarly(k, e, a, t) ==
  IF k \in WhileKinds THEN e + Interval(k) < t ELSE a < t

\* the loop condition: `elapsed < timeout`, or the range() not yet exhausted
LoopGuard(k, e, a, t) == IF k \in WhileKinds THEN e < t ELSE a < t

\* a wait that goes on from the count a previous call left behind
InitialElapsedStale(prev) == prev

\* `elapsed = 0` at the head of every wait, whatever the name held before
InitialElapsed(prev) == 0

\* a counter update that adds more than was slept in the copy that prints
ElapsedStepPrinting(k) == IF Prints(k) THEN 2 * Interval(k) ELSE Interval(k)

\* a counter update that adds twice what the loop slept
ElapsedStepDouble(k) == 2 * Interval(k)

\* what `elapsed += 5` adds after one sleep
ElapsedStep(k) == Interval(k)

(* ------------------------------- state -------------------------------- *)

VARIABLES
  pc,        \* position of main(); "harness" when a wait is run on its own
  exitCode,  \* exit status of the script, -1 while it runs
  applied,   \* the manifests applied so far, in order; in the deploy
             \* scripts every command issued, with its result
  gates,     \* the outcomes of the waits main() has performed, in order
  kind,      \* which copy of the wait is running
  timeout,   \* its timeout
  wpc,       \* position inside the wait
  elapsed,   \* the loop's own counter of seconds
  attempt,   \* the index of a range() loop
  outcome,   \* "None", "Ready" (True), "TimedOut" (False), "Raised"
  evals,     \* evaluations of the check made by this wait
  raised,    \* some evaluation of this wait raised
  sleeps,    \* calls of time.sleep(interval) made by the loop
  slept,     \* seconds slept since the wait step began
  clock,     \* seconds since the wait step began, evaluations included
  sinceEval, \* seconds slept since the last evaluation
  gap,       \* seconds slept between the last two evaluations
  printed,   \* the N of the last "Waiting... (N seconds)", -1 if none
  world,     \* the external condition now
  ready0,    \* the check would have held when the loop was entered
  seen,      \* the external condition seen by the evaluation that ended
             \* the wait
  said,      \* the line the wait printed when it ended: "ready", "timeout"
             \* or "none"
  script,    \* the script whose main() runs, "none" for a wait on its own
  answer,    \* the lines the user typed at the prompt of setup-cilium
  has,       \* what deploy-full-stack found: cluster, cilium, monitoring
  interrupted, \* a KeyboardInterrupt was delivered during a wait
  inst,      \* two waits running side by side: their locals and results
  frames     \* the `elapsed` local of each of the two

wvars == <<kind, timeout, wpc, elapsed, attempt, outcome, evals, raised, sleeps,
           slept, clock, sinceEval, gap, printed, world, ready0, seen, said>>
mvars == <<pc, exitCode, applied, gates>>
\* state of the other scripts and of the side-by-side run
others == <<script, answer, has, interrupted, inst, frames>>
vars == <<pc, exitCode, applied, gates, kind, timeout, wpc, elapsed, attempt,
          outcome, evals, raised, sleeps, slept, clock, sinceEval, gap,
          printed, world, ready0, seen, said, script, answer, has,
          interrupted, inst, frames>>

NoWorld == [exc |-> FALSE, statuses |-> <<>>, http |-> 0]

\* the counters of a wait that has not begun
FreshWait ==
  /\ elapsed = 0 /\ attempt = 0 /\ outcome = "None" /\ evals = 0
  /\ raised = FALSE /\ sleeps = 0 /\ slept = 0 /\ clock = 0
  /\ sinceEval = 0 /\ gap = 0 /\ printed = -1 /\ said = "none"

\* nothing typed, nothing probed, no interrupt
NoAnswer == <<>>
NoFacts == [cluster |-> FALSE, cilium |-> FALSE, monitoring |-> FALSE]
\* the side-by-side run is not in use
NoPair ==
  /\ inst = <<>>
  /\ frames = <<>>

\* TRUE when the copy prints a timeout line after its loop gave up; the
\* inline loops of deploy-full-stack and deploy-with-monitoring fall through
\* to the next step without one
TimeoutMessage(k) == k \notin {"full_stack_inline", "with_monitoring_inline"}

(* --------------------------- the wait itself -------------------------- *)

\* how long one evaluation may take; clock only observes, and it is followed
\* for a wait run on its own, not through a whole main()
CheckDurations == IF pc = "harness" THEN 0..MaxCheckDur ELSE {0}

\* time.sleep(10) at the head of an inline wait step
SettleSleep ==
  /\ wpc = "settle"
  /\ slept' = slept + Settle(kind)
  /\ clock' = clock + Settle(kind)
  /\ world' \in Worlds(kind)
  /\ wpc' = "init"
  /\ UNCHANGED <<kind, timeout, elapsed, attempt, outcome, evals, raised,
                 sleeps, sinceEval, gap, printed, ready0, seen, said>>
  /\ UNCHANGED mvars
  /\ UNCHANGED others

\* `elapsed = 0` (or the start of the for loop)
Enter ==
  /\ wpc = "init"
  /\ elapsed' = InitialElapsed(elapsed)
  /\ attempt' = 0
  /\ ready0' = (~world.exc /\ IsReady(kind, world))
  /\ wpc' = "test"
  /\ UNCHANGED <<kind, timeout, outcome, evals, raised, sleeps, slept, clock,
                 sinceEval, gap, printed, world, seen, said>>
  /\ UNCHANGED mvars
  /\ UNCHANGED others

\* the loop condition; when it fails the wait prints its timeout line and
\* returns False
LoopTest ==
  /\ wpc = "test"
  /\ IF LoopGuard(kind, elapsed, attempt, timeout)
     THEN /\ wpc' = "eval"
          /\ UNCHANGED <<outcome, said>>
     ELSE /\ wpc' = "done"
          /\ outcome' = "TimedOut"
          /\ said' = IF TimeoutMessage(kind) THEN "timeout" ELSE said
  /\ UNCHANGED <<kind, timeout, elapsed, attempt, evals, raised, sleeps, slept,
                 clock, sinceEval, gap, printed, world, ready0, seen>>
  /\ UNCHANGED mvars
  /\ UNCHANGED others

\* one evaluation of the check and the branch taken on its result
Evaluate ==
  /\ wpc = "eval"
  /\ \E d \in CheckDurations : clock' = clock + d
  /\ evals' = evals + 1
  /\ gap' = sinceEval
  /\ sinceEval' = 0
  /\ raised' = (raised \/ world.exc)
  /\ IF world.exc
     THEN IF Swallows(kind)
          THEN \* except: pass  (check_service and check_url sleep here)
               IF kind = "check_url" /\ ~(attempt < timeout - 1)
               THEN /\ wpc' = "test"
                    /\ attempt' = attempt + 1
                    /\ UNCHANGED outcome
               ELSE /\ wpc' = "sleep"
                    /\ UNCHANGED <<attempt, outcome>>
          ELSE \* the exception leaves the wait function
               /\ wpc' = "done"
               /\ outcome' = "Raised"
               /\ UNCHANGED attempt
     ELSE IF IsReady(kind, world)
          THEN /\ wpc' = "done"
               /\ outcome' = "Ready"
               /\ UNCHANGED attempt
          ELSE IF kind \in ForKinds
               THEN \* a response other than 200: next iteration at once
                    /\ wpc' = "test"
                    /\ attempt' = attempt + 1
                    /\ UNCHANGED outcome
               ELSE /\ wpc' = "sleep"
                    /\ UNCHANGED <<attempt, outcome>>
  /\ IF wpc' = "done"
     THEN seen' = world /\ world' = world
     ELSE seen' = seen /\ world' \in Worlds(kind)
  /\ said' = IF outcome' = "Ready" THEN "ready" ELSE said
  /\ UNCHANGED <<kind, timeout, elapsed, sleeps, slept, printed, ready0>>
  /\ UNCHANGED mvars
  /\ UNCHANGED others

\* the progress line, time.sleep(interval) and the counter update
Sleep ==
  /\ wpc = "sleep"
  /\ printed' = IF Prints(kind) THEN elapsed ELSE printed
  /\ sleeps' = sleeps + 1
  /\ slept' = slept + Interval(kind)
  /\ clock' = clock + Interval(kind)
  /\ sinceEval' = sinceEval + Interval(kind)
  /\ IF kind \in WhileKinds
     THEN /\ elapsed' = elapsed + ElapsedStep(kind)
          /\ UNCHANGED attempt
     ELSE /\ attempt' = attempt + 1
          /\ UNCHANGED elapsed
  /\ world' \in Worlds(kind)
  /\ wpc' = "test"
  /\ UNCHANGED <<kind, timeout, outcome, evals, raised, gap, ready0, seen,
                 said>>
  /\ UNCHANGED mvars
  /\ UNCHANGED others

(* ------------------- a wait run on its own (Spec) --------------------- *)

Init ==
  /\ pc = "harness"
  /\ exitCode = -1
  /\ applied = <<>>
  /\ gates = <<>>
  /\ kind \in Kinds
  /\ timeout \in (IF kind \in FunctionKinds THEN 0..MaxTimeout
                  ELSE {InlineTimeout(kind)})
  /\ wpc = IF Settle(kind) > 0 THEN "settle" ELSE "init"
  /\ FreshWait
  /\ world \in Worlds(kind)
  /\ ready0 = FALSE
  /\ seen = NoWorld
  /\ script = "none"
  /\ answer = NoAnswer
  /\ has = NoFacts
  /\ interrupted = FALSE
  /\ NoPair

Next == SettleSleep \/ Enter \/ LoopTest \/ Evaluate \/ Sleep

Spec == Init /\ [][Next]_vars

(* -------------- main() of deploy-monitoring-stack.py ------------------ *)

\* the steps of main(), in program order
MonStackOrder ==
  <<"build", "load", "clean_app", "apply_app", "wait_app",
    "clean_prometheus", "apply_prometheus", "wait_prometheus",
    "clean_grafana", "apply_grafana", "wait_grafana",
    "status", "svc_app", "svc_prometheus", "svc_grafana", "banner">>

\* the step that follows step p in program order
StepAfter(p) ==
  LET i == CHOOSE j \in 1..Len(MonStackOrder) : MonStackOrder[j] = p
  IN MonStackOrder[i + 1]

\* steps of the form `if not run_command(...): sys.exit(1)`
RequiredSteps == {"build", "load", "apply_app", "apply_prometheus", "apply_grafana"}
\* the manifest a required step applies ("" for the image steps)
Manifest(p) ==
  CASE p = "apply_app" -> "k8s/nginx-exporter.yaml"
    [] p = "apply_prometheus" -> "k8s/prometheus-deployment.yaml"
    [] p = "apply_grafana" -> "k8s/grafana-deployment.yaml"
    [] OTHER -> ""
\* the three `kubectl delete` calls (check=False) and time.sleep(5) before
\* an apply, and the three `kubectl get` calls of step 5
IgnoredSteps == {"clean_app", "clean_prometheus", "clean_grafana", "status"}
\* the calls of wait_for_pods and check_service
WaitSteps == {"wait_app", "wait_prometheus", "wait_grafana",
              "svc_app", "svc_prometheus", "svc_grafana"}
\* the function a wait step calls, and the timeout it is called with
WaitKind(p) ==
  IF p \in {"wait_app", "wait_prometheus", "wait_grafana"}
  THEN "wait_for_pods" ELSE "check_service"
WaitTimeout(p) ==
  IF p \in {"wait_app", "wait_prometheus", "wait_grafana"}
  THEN DefaultTimeout ELSE ServiceTimeout

\* `if not run_command(cmd): sys.exit(1)`
RunRequired ==
  /\ pc \in RequiredSteps
  /\ \E ok \in BOOLEAN :
       IF ok
       THEN /\ applied' = IF Manifest(pc) = "" THEN applied
                          ELSE Append(applied, Manifest(pc))
            /\ pc' = StepAfter(pc)
            /\ UNCHANGED exitCode
       ELSE /\ pc' = "exit"
            /\ exitCode' = 1
            /\ UNCHANGED applied
  /\ UNCHANGED gates
  /\ UNCHANGED wvars
  /\ UNCHANGED others

\* run_command(..., check=False): the result is not looked at
RunIgnored ==
  /\ pc \in IgnoredSteps
  /\ pc' = StepAfter(pc)
  /\ UNCHANGED <<exitCode, applied, gates>>
  /\ UNCHANGED wvars
  /\ UNCHANGED others

\* the call of wait_for_pods(label) or check_service(url, name)
CallWait ==
  /\ pc \in WaitSteps
  /\ wpc = "idle"
  /\ kind' = WaitKind(pc)
  /\ timeout' = WaitTimeout(pc)
  /\ wpc' = "init"
  /\ world' \in Worlds(kind')
  /\ UNCHANGED <<elapsed, attempt, outcome, evals, raised, sleeps, slept,
                 clock, sinceEval, gap, printed, ready0, seen, said>>
  /\ UNCHANGED mvars
  /\ UNCHANGED others

\* the wait returns: main() drops the value and goes on; an exception that
\* left the wait reaches the handler under __main__, which exits with 1
ReturnWait ==
  /\ pc \in WaitSteps
  /\ wpc = "done"
  /\ gates' = Append(gates, [step |-> pc, outcome |-> outcome])
  /\ IF outcome = "Raised"
     THEN pc' = "exit" /\ exitCode' = 1
     ELSE pc' = StepAfter(pc) /\ UNCHANGED exitCode
  /\ wpc' = "idle"
  /\ UNCHANGED applied
  \* the locals of the wait are gone; elapsed keeps its last value here so
  \* that only the `elapsed = 0` of the next call makes that call fresh
  /\ UNCHANGED elapsed
  /\ attempt' = 0 /\ outcome' = "None" /\ evals' = 0
  /\ raised' = FALSE /\ sleeps' = 0 /\ slept' = 0 /\ clock' = 0
  /\ sinceEval' = 0 /\ gap' = 0 /\ printed' = -1
  /\ world' = NoWorld /\ ready0' = FALSE /\ seen' = NoWorld
  /\ said' = "none"
  /\ UNCHANGED <<kind, timeout>>
  /\ UNCHANGED others

\* the closing banner; main() returns and the interpreter exits with 0
Finish ==
  /\ pc = "banner"
  /\ pc' = "exit"
  /\ exitCode' = 0
  /\ UNCHANGED <<applied, gates>>
  /\ UNCHANGED wvars
  /\ UNCHANGED others

InitMonStack ==
  /\ pc = "build"
  /\ exitCode = -1
  /\ applied = <<>>
  /\ gates = <<>>
  /\ kind = "wait_for_pods"
  /\ timeout = DefaultTimeout
  /\ wpc = "idle"
  /\ FreshWait
  /\ world = NoWorld
  /\ ready0 = FALSE
  /\ seen = NoWorld
  /\ script = "deploy-monitoring-stack"
  /\ answer = NoAnswer
  /\ has = NoFacts
  /\ interrupted = FALSE
  /\ NoPair

NextMonStack ==
  \/ RunRequired \/ RunIgnored \/ CallWait \/ ReturnWait \/ Finish
  \/ Enter \/ LoopTest \/ Evaluate \/ Sleep

SpecMonStack == InitMonStack /\ [][NextMonStack]_vars

(* ------------- main() of the deploy scripts and setup-cilium ---------- *)

DeployScripts == {"deploy-with-cilium", "deploy-with-monitoring",
                  "deploy-full-stack", "deploy"}
Scripts == DeployScripts \cup {"setup-cilium"}
\* the scripts that ask 'Continue? (yes/no)' before they do anything
PromptScripts == {"setup-monitoring", "fix-grafana-complete"}
\* the helper scripts, run in one specification
ToolScripts == PromptScripts \cup {"test-network-policies", "start-port-forwards",
                                  "apply-network-policies"}
\* every script whose main() is followed step by step
Programs == Scripts \cup ToolScripts

\* the steps of each main(), in program order
DeployOrder(s) ==
  CASE s = "deploy-with-cilium" ->
         <<"build", "load", "apply_deployment", "apply_service", "pause",
           "wait", "status", "banner">>
    [] s = "deploy-with-monitoring" ->
         <<"build", "load", "apply_deployment", "apply_service",
           "servicemonitor", "wait", "status", "banner">>
    [] s = "deploy-full-stack" ->
         <<"probe", "setup_cilium", "setup_monitoring", "build", "load",
           "apply_deployment", "apply_service", "servicemonitor", "wait",
           "status", "banner">>
    [] s = "deploy" ->
         <<"check_docker", "probe", "create_cluster", "wait_nodes",
           "apply_deployment", "apply_service", "wait_deployment", "status",
           "banner">>
    [] s = "setup-cilium" ->
         <<"check_docker", "check_kind", "check_kubectl", "existing_cluster",
           "create_cluster", "install_cilium", "wait", "status", "banner">>
    [] s = "setup-monitoring" ->
         <<"prompt", "check_installed", "install_prometheus",
           "install_grafana", "start_prometheus", "start_grafana", "pause",
           "add_datasource", "final_status", "banner">>
    [] s = "fix-grafana-complete" ->
         <<"prompt", "remove_grafana", "pause", "deploy_grafana", "wait",
           "status", "port_forward", "test_login", "banner">>
    [] s = "apply-network-policies" ->
         <<"check_policies", "choose", "show_current", "banner">>
    [] s = "start-port-forwards" ->
         <<"check_services", "start_forwards", "probe_urls", "keep_alive">>
    [] s = "test-network-policies" ->
         <<"find_pod", "test_allowed", "test_blocked", "show_policies",
           "show_cilium_policies", "show_endpoints", "create_namespace",
           "test_other_ns", "delete_namespace", "banner">>

DeployStepAfter(s, p) ==
  LET i == CHOOSE j \in 1..Len(DeployOrder(s)) : DeployOrder(s)[j] = p
  IN DeployOrder(s)[i + 1]

\* a script that goes on to its next step after a required command failed
OnFailureContinue(s, p) == DeployStepAfter(s, p)

\* `sys.exit(1)` in the branch of a failed required command
OnFailure(s, p) == "exit"

\* steps of the form `if not <command>: ... sys.exit(1)`
Required(s, p) ==
  /\ p \in {"build", "load", "apply_deployment", "apply_service",
            "setup_cilium", "setup_monitoring", "check_docker", "check_kind",
            "check_kubectl", "create_cluster", "install_prometheus",
            "install_grafana"}
  /\ \E j \in 1..Len(DeployOrder(s)) : DeployOrder(s)[j] = p

\* a script that sets Cilium up only when the cluster is missing
NeededClusterOnly(s, p, h) ==
  CASE p = "setup_cilium" -> ~h.cluster
    [] p = "setup_monitoring" -> ~h.monitoring
    [] p = "create_cluster" /\ s = "deploy" -> ~h.cluster
    [] p = "install_prometheus" -> ~h.prometheus
    [] p = "install_grafana" -> ~h.grafana
    [] OTHER -> TRUE

\* whether a required step is run at all, from what the script found
Needed(s, p, h) ==
  CASE p = "setup_cilium" -> ~h.cluster \/ ~h.cilium
    [] p = "setup_monitoring" -> ~h.monitoring
    [] p = "create_cluster" /\ s = "deploy" -> ~h.cluster
    [] p = "install_prometheus" -> ~h.prometheus
    [] p = "install_grafana" -> ~h.grafana
    [] OTHER -> TRUE

\* commands whose failure does not stop the script
AdvisorySteps == {"servicemonitor", "wait_nodes", "wait_deployment", "status",
                  "remove_grafana", "port_forward", "test_login",
                  "add_datasource", "final_status", "show_current"}
\* what the script learns from such a command: its result where the code
\* branches on it for a message, "unread" where the value is dropped
Results(s, p) ==
  IF \/ p \in {"status", "remove_grafana", "port_forward", "final_status",
              "show_current"}
     \/ (p = "servicemonitor" /\ s = "deploy-full-stack")
  THEN {"unread"} ELSE {"ok", "failed"}

\* the commands that install Cilium
InstallCmds == {"helm_repo_add", "helm_repo_update", "helm_install",
                "kubectl_apply_cilium"}

\* the wait each script performs, and its timeout
DeployWaitKind(s) ==
  CASE s = "deploy-with-cilium" -> "check_pods_ready"
    [] s = "deploy-with-monitoring" -> "with_monitoring_inline"
    [] s = "deploy-full-stack" -> "full_stack_inline"
    [] s = "setup-cilium" -> "cilium_inline"
    [] s = "fix-grafana-complete" -> "wait_for_pod"
DeployWaitTimeout(s) ==
  IF s \in {"deploy-with-cilium", "fix-grafana-complete"} THEN DefaultTimeout
  ELSE InlineTimeout(DeployWaitKind(s))

\* one entry of the command log
Cmd(c, r) == [cmd |-> c, result |-> r]

\* the characters a user may type, and the answers made of them
AnswerChars == {"y", "Y", "n", " "}
Answers == SeqsUpTo(AnswerChars, MaxAnswerLen)

\* a comparison that does not fold case
LowerIdentity(a) == a

\* str.lower()
Lower(a) ==
  [i \in 1..Len(a) |->
     CASE a[i] = "Y" -> "y" [] a[i] = "N" -> "n" [] OTHER -> a[i]]

\* check_cluster_exists(), check_cilium_exists(), check_monitoring_exists():
\* Cilium and monitoring are probed only when the cluster exists
DeployProbe ==
  /\ pc = "probe"
  /\ \E c \in BOOLEAN : \E ci \in BOOLEAN : \E m \in BOOLEAN :
       /\ (~c \/ script = "deploy") => (~ci /\ ~m)
       /\ has' = [cluster |-> c, cilium |-> ci, monitoring |-> m]
  /\ pc' = DeployStepAfter(script, pc)
  /\ UNCHANGED <<exitCode, applied, gates>>
  /\ UNCHANGED <<script, answer, interrupted, inst, frames>>
  /\ UNCHANGED wvars

\* `if not run_command(cmd): sys.exit(1)`, skipped when not needed
DeployRequired ==
  /\ script \in Programs
  /\ Required(script, pc)
  /\ IF ~Needed(script, pc, has)
     THEN /\ pc' = DeployStepAfter(script, pc)
          /\ UNCHANGED <<exitCode, applied>>
     ELSE \E ok \in BOOLEAN :
            IF ok
            THEN /\ applied' = Append(applied, Cmd(pc, "ok"))
                 /\ pc' = DeployStepAfter(script, pc)
                 /\ UNCHANGED exitCode
            ELSE /\ applied' = Append(applied, Cmd(pc, "failed"))
                 /\ pc' = OnFailure(script, pc)
                 /\ exitCode' = IF pc' = "exit" THEN 1 ELSE exitCode
  /\ UNCHANGED gates
  /\ UNCHANGED wvars
  /\ UNCHANGED others

\* a command run with check=False or whose result only chooses a message;
\* the ServiceMonitor is applied only if its file is there
DeployIgnored ==
  /\ script \in Programs
  /\ pc \in AdvisorySteps
  /\ \E present \in (IF pc = "servicemonitor" THEN BOOLEAN ELSE {TRUE}) :
       IF present
       THEN \E r \in Results(script, pc) : applied' = Append(applied, Cmd(pc, r))
       ELSE UNCHANGED applied
  /\ pc' = DeployStepAfter(script, pc)
  /\ UNCHANGED <<exitCode, gates>>
  /\ UNCHANGED wvars
  /\ UNCHANGED others

\* time.sleep(10) of deploy-with-cilium before it calls check_pods_ready
DeployPause ==
  /\ pc = "pause"
  /\ pc' = DeployStepAfter(script, pc)
  /\ UNCHANGED <<exitCode, applied, gates>>
  /\ UNCHANGED wvars
  /\ UNCHANGED others

\* step 2 of setup-cilium: an existing cluster is deleted after the user
\* agreed, `input(...).lower() == 'y'`; any other answer exits with 1
PromptCluster ==
  /\ pc = "existing_cluster"
  /\ \E exists \in BOOLEAN :
       /\ has' = [has EXCEPT !.cluster = exists]
       /\ IF ~exists
          THEN /\ pc' = DeployStepAfter(script, pc)
               /\ UNCHANGED <<answer, applied, exitCode>>
          ELSE \E a \in Answers :
                 /\ answer' = Append(answer, a)
                 /\ IF Lower(a) = <<"y">>
                    THEN /\ \E r \in {"ok", "failed"} :
                              applied' = Append(applied, Cmd("delete_cluster", r))
                         /\ pc' = DeployStepAfter(script, pc)
                         /\ UNCHANGED exitCode
                    ELSE /\ pc' = "exit"
                         /\ exitCode' = 1
                         /\ UNCHANGED applied
  /\ UNCHANGED gates
  /\ UNCHANGED <<script, interrupted, inst, frames>>
  /\ UNCHANGED wvars

\* step 4 of setup-cilium: with Helm when it is installed, else with kubectl;
\* the result only chooses the message
InstallCilium ==
  /\ pc = "install_cilium"
  /\ \E helm \in BOOLEAN : \E r \in {"ok", "failed"} :
       applied' = applied \o
         (IF helm
          THEN <<Cmd("helm_repo_add", "unread"), Cmd("helm_repo_update", "unread"),
                 Cmd("helm_install", r)>>
          ELSE <<Cmd("kubectl_apply_cilium", r)>>)
  /\ pc' = DeployStepAfter(script, pc)
  /\ UNCHANGED <<exitCode, gates>>
  /\ UNCHANGED wvars
  /\ UNCHANGED others

\* the wait step begins: the call of check_pods_ready, or the first line of
\* an inline loop's step
DeployCallWait ==
  /\ script \in Programs
  /\ pc = "wait"
  /\ wpc = "idle"
  /\ kind' = DeployWaitKind(script)
  /\ timeout' = DeployWaitTimeout(script)
  /\ wpc' = IF Settle(kind') > 0 THEN "settle" ELSE "init"
  /\ world' \in Worlds(kind')
  /\ UNCHANGED <<elapsed, attempt, outcome, evals, raised, sleeps, slept,
                 clock, sinceEval, gap, printed, ready0, seen, said>>
  /\ UNCHANGED mvars
  /\ UNCHANGED others

\* the wait is over: main() goes on to the status step whatever the outcome
DeployReturnWait ==
  /\ script \in Programs
  /\ pc = "wait"
  /\ wpc = "done"
  /\ gates' = Append(gates, [step |-> pc, outcome |-> outcome])
  /\ IF outcome = "Raised"
     THEN pc' = "exit" /\ exitCode' = 1
     ELSE pc' = DeployStepAfter(script, pc) /\ UNCHANGED exitCode
  /\ wpc' = "idle"
  /\ UNCHANGED applied
  /\ UNCHANGED elapsed
  /\ attempt' = 0 /\ outcome' = "None" /\ evals' = 0
  /\ raised' = FALSE /\ sleeps' = 0 /\ slept' = 0 /\ clock' = 0
  /\ sinceEval' = 0 /\ gap' = 0 /\ printed' = -1
  /\ world' = NoWorld /\ ready0' = FALSE /\ seen' = NoWorld
  /\ said' = "none"
  /\ UNCHANGED <<kind, timeout>>
  /\ UNCHANGED others

\* the closing banner; main() returns and the interpreter exits with 0
DeployFinish ==
  /\ script \in Programs
  /\ pc = "banner"
  /\ pc' = "exit"
  /\ exitCode' = 0
  /\ said' = "banner"
  /\ UNCHANGED <<applied, gates>>
  /\ UNCHANGED <<kind, timeout, wpc, elapsed, attempt, outcome, evals, raised,
                 sleeps, slept, clock, sinceEval, gap, printed, world, ready0,
                 seen>>
  /\ UNCHANGED others

\* Ctrl-C while the check is being evaluated.  Inside `try: ... except:` the
\* bare except catches KeyboardInterrupt like any other exception: the loop
\* goes on to its sleep.  Without a try it reaches the handler under
\* __main__, which prints the interrupted message and exits with 1.
InterruptEval ==
  /\ script \in Scripts
  /\ wpc = "eval"
  /\ ~interrupted
  /\ interrupted' = TRUE
  /\ evals' = evals + 1
  /\ raised' = TRUE
  /\ gap' = sinceEval
  /\ sinceEval' = 0
  /\ IF Swallows(kind)
     THEN /\ wpc' = "sleep"
          /\ UNCHANGED <<pc, exitCode, said>>
     ELSE /\ wpc' = "idle"
          /\ pc' = "exit"
          /\ exitCode' = 1
          /\ said' = "interrupted"
  /\ world' \in Worlds(kind)
  /\ UNCHANGED <<applied, gates>>
  /\ UNCHANGED <<kind, timeout, elapsed, attempt, outcome, sleeps, slept,
                 clock, printed, ready0, seen>>
  /\ UNCHANGED <<script, answer, has, inst, frames>>

\* Ctrl-C during a time.sleep() of the wait step: nothing catches it before
\* the handler under __main__
InterruptSleep ==
  /\ script \in Scripts
  /\ wpc \in {"sleep", "settle"} \/ pc = "pause"
  /\ ~interrupted
  /\ interrupted' = TRUE
  /\ wpc' = "idle"
  /\ pc' = "exit"
  /\ exitCode' = 1
  /\ said' = "interrupted"
  /\ UNCHANGED <<applied, gates>>
  /\ UNCHANGED <<kind, timeout, elapsed, attempt, outcome, evals, raised,
                 sleeps, slept, clock, sinceEval, gap, printed, world, ready0,
                 seen>>
  /\ UNCHANGED <<script, answer, has, inst, frames>>

InitDeploy ==
  /\ script \in Scripts
  /\ pc = Head(DeployOrder(script))
  /\ exitCode = -1
  /\ applied = <<>>
  /\ gates = <<>>
  /\ kind = "check_pods_ready"
  /\ timeout = DefaultTimeout
  /\ wpc = "idle"
  /\ FreshWait
  /\ world = NoWorld
  /\ ready0 = FALSE
  /\ seen = NoWorld
  /\ answer = NoAnswer
  /\ has = NoFacts
  /\ interrupted = FALSE
  /\ NoPair

NextDeploy ==
  \/ DeployProbe \/ DeployRequired \/ DeployIgnored \/ DeployPause
  \/ PromptCluster \/ InstallCilium
  \/ DeployCallWait \/ DeployReturnWait \/ DeployFinish
  \/ InterruptEval \/ InterruptSleep
  \/ SettleSleep \/ Enter \/ LoopTest \/ Evaluate \/ Sleep

SpecDeploy == InitDeploy /\ [][NextDeploy]_vars

(* ------- main() of setup-monitoring and fix-grafana-complete ---------- *)

\* the characters a user may type at 'Continue? (yes/no)', and the answers
ContinueChars == {"y", "Y", "e", "s", "n", " "}
ContinueAnswers == SeqsUpTo(ContinueChars, MaxContinueLen)

\* str.strip(): the text without its leading and trailing blanks
RECURSIVE StripLeft(_)
StripLeft(a) == IF a # <<>> /\ Head(a) = " " THEN StripLeft(Tail(a)) ELSE a
RECURSIVE StripRight(_)
StripRight(a) ==
  IF a # <<>> /\ a[Len(a)] = " " THEN StripRight(SubSeq(a, 1, Len(a) - 1)) ELSE a
Strip(a) == StripRight(StripLeft(a))

\* the two answers that let the script go on
YesWords == {<<"y", "e", "s">>, <<"y">>}

\* a prompt that goes on unless the answer is 'n'
AcceptedUnlessNo(a) == Strip(Lower(a)) # <<"n">>

\* `input(...).lower().strip() in ['yes', 'y']`
Accepted(a) == Strip(Lower(a)) \in YesWords

\* the prompt that opens main(): any other answer, or Ctrl-C at the prompt,
\* is sys.exit(0); an end of input is an EOFError, which the handler under
\* __main__ turns into exit status 1
ContinuePrompt ==
  /\ script \in PromptScripts
  /\ pc = "prompt"
  /\ \/ /\ interrupted' = TRUE
        /\ pc' = "exit" /\ exitCode' = 0
        /\ UNCHANGED <<answer, said>>
     \/ /\ pc' = "exit" /\ exitCode' = 1
        /\ said' = "error"
        /\ UNCHANGED <<answer, interrupted>>
     \/ \E a \in ContinueAnswers :
          /\ answer' = Append(answer, a)
          /\ IF Accepted(a)
             THEN pc' = DeployStepAfter(script, pc) /\ UNCHANGED exitCode
             ELSE pc' = "exit" /\ exitCode' = 0
          /\ UNCHANGED <<interrupted, said>>
  /\ UNCHANGED <<applied, gates>>
  /\ UNCHANGED <<kind, timeout, wpc, elapsed, attempt, outcome, evals, raised,
                 sleeps, slept, clock, sinceEval, gap, printed, world, ready0,
                 seen>>
  /\ UNCHANGED <<script, has, inst, frames>>

\* setup-monitoring looks for the two executables
CheckInstalled ==
  /\ pc = "check_installed"
  /\ \E p \in BOOLEAN : \E g \in BOOLEAN :
       has' = [prometheus |-> p, grafana |-> g]
  /\ pc' = DeployStepAfter(script, pc)
  /\ UNCHANGED <<exitCode, applied, gates>>
  /\ UNCHANGED <<script, answer, interrupted, inst, frames>>
  /\ UNCHANGED wvars

\* the HTTP check that follows the start of a service
CheckOf(p) == IF p = "start_prometheus" THEN "check_prometheus" ELSE "check_grafana"

\* start_prometheus() and start_grafana(): False when the executable is not
\* there; else the service is started in the background and, after a sleep,
\* its URL is fetched once: True only for a 200.  main() exits with 1 on False.
StartService ==
  /\ pc \in {"start_prometheus", "start_grafana"}
  /\ \E exists \in (IF (IF pc = "start_prometheus" THEN has.prometheus
                        ELSE has.grafana)
                    THEN {TRUE} ELSE BOOLEAN) :
       IF ~exists
       THEN /\ said' = "not_found"
            /\ pc' = OnFailure(script, pc)
            /\ exitCode' = IF pc' = "exit" THEN 1 ELSE exitCode
            /\ UNCHANGED applied
       ELSE \E r \in {"ok", "failed"} :
              /\ applied' = applied \o <<Cmd(pc, "unread"), Cmd(CheckOf(pc), r)>>
              /\ pc' = IF r = "ok" THEN DeployStepAfter(script, pc)
                       ELSE OnFailure(script, pc)
              /\ exitCode' = IF pc' = "exit" THEN 1 ELSE exitCode
              /\ UNCHANGED said
  /\ UNCHANGED gates
  /\ UNCHANGED <<kind, timeout, wpc, elapsed, attempt, outcome, evals, raised,
                 sleeps, slept, clock, sinceEval, gap, printed, world, ready0,
                 seen>>
  /\ UNCHANGED others

\* step 2 of fix-grafana-complete: the manifest is applied; when that fails
\* an inline manifest is written and applied, and its failure is exit 1
DeployGrafana ==
  /\ pc = "deploy_grafana"
  /\ \E r \in {"ok", "failed"} :
       IF r = "ok"
       THEN /\ applied' = Append(applied, Cmd("apply_grafana", "ok"))
            /\ pc' = DeployStepAfter(script, pc)
            /\ UNCHANGED exitCode
       ELSE \E r2 \in {"ok", "failed"} :
              /\ applied' = applied \o <<Cmd("apply_grafana", "failed"),
                                         Cmd("apply_grafana_inline", r2)>>
              /\ pc' = IF r2 = "ok" THEN DeployStepAfter(script, pc)
                       ELSE OnFailure(script, pc)
              /\ exitCode' = IF pc' = "exit" THEN 1 ELSE exitCode
  /\ UNCHANGED gates
  /\ UNCHANGED wvars
  /\ UNCHANGED others

(* ----------------- main() of test-network-policies -------------------- *)

\* the calls inside the `try:` of main(), each issuing one command
TestSteps == {"test_allowed", "test_blocked", "show_policies",
              "show_cilium_policies", "show_endpoints", "create_namespace",
              "test_other_ns", "delete_namespace"}

\* a cleanup that forgets the namespace
CleanupPodsOnly ==
  <<Cmd("delete_pod_allowed", "unread"), Cmd("delete_pod_blocked", "unread")>>

\* the three deletes of the KeyboardInterrupt handler of main() and of the
\* Exception handler under __main__
Cleanup ==
  <<Cmd("delete_pod_allowed", "unread"), Cmd("delete_pod_blocked", "unread"),
    Cmd("delete_namespace", "unread")>>

\* get_app_pod(): the name of the first application pod, None when kubectl
\* fails; without a pod main() exits with 1
FindAppPod ==
  /\ pc = "find_pod"
  /\ \E found \in BOOLEAN :
       /\ has' = [pod |-> found]
       /\ IF found
          THEN pc' = DeployStepAfter(script, pc) /\ UNCHANGED exitCode
          ELSE pc' = "exit" /\ exitCode' = 1
  /\ UNCHANGED <<applied, gates>>
  /\ UNCHANGED <<script, answer, interrupted, inst, frames>>
  /\ UNCHANGED wvars

\* one test runs to its end; run_command(check=False), result dropped
RunTest ==
  /\ pc \in TestSteps
  /\ applied' = Append(applied, Cmd(pc, "unread"))
  /\ pc' = DeployStepAfter(script, pc)
  /\ UNCHANGED <<exitCode, gates>>
  /\ UNCHANGED wvars
  /\ UNCHANGED others

\* Ctrl-C or an unexpected exception inside the `try:` of main(), before or
\* after the command of the current step went out: the handler issues the
\* three deletes and exits with 1
TestAborted ==
  /\ script = "test-network-policies"
  /\ pc \in TestSteps \cup {"banner"}
  /\ \E how \in {"interrupted", "error"} : \E started \in BOOLEAN :
       /\ interrupted' = (how = "interrupted")
       /\ said' = how
       /\ applied' = (IF started /\ pc \in TestSteps
                      THEN Append(applied, Cmd(pc, "unread")) ELSE applied)
                     \o Cleanup
  /\ pc' = "exit"
  /\ exitCode' = 1
  /\ UNCHANGED gates
  /\ UNCHANGED <<kind, timeout, wpc, elapsed, attempt, outcome, evals, raised,
                 sleeps, slept, clock, sinceEval, gap, printed, world, ready0,
                 seen>>
  /\ UNCHANGED <<script, answer, has, inst, frames>>

(* ------------------- main() of start-port-forwards -------------------- *)

\* max_attempts of check_url
ProbeAttempts == 10

\* the configured services, in the order of the list in main()
ServiceList == <<"football-intro-app-service", "prometheus", "grafana">>
Services == {ServiceList[i] : i \in 1..Len(ServiceList)}

\* the first service of the list that is in S: what a `for` over a list
\* built in that order reaches next
FirstOf(S) ==
  ServiceList[CHOOSE i \in 1..Len(ServiceList) :
                /\ ServiceList[i] \in S
                /\ \A j \in 1..(i - 1) : ServiceList[j] \notin S]
\* the last one: the service whose URL is being probed
LastOf(S) ==
  ServiceList[CHOOSE i \in 1..Len(ServiceList) :
                /\ ServiceList[i] \in S
                /\ \A j \in (i + 1)..Len(ServiceList) : ServiceList[j] \notin S]

\* the lists of main() before its first loop, with what was tried so far:
\* checked (kubectl get service), forwarded (port-forward issued) and probed
\* (check_url called)
NoForwards ==
  [checked |-> {}, available |-> {}, forwarded |-> {}, started |-> {},
   probed |-> {}, accessible |-> {}]

\* a second loop that runs over every configured service
ToForwardAll(h) == Services

\* `for ... in available_services`
ToForward(h) == h.available

\* one round of the first loop: check_service_exists(service_name)
CheckServiceExists ==
  /\ pc = "check_services"
  /\ has.checked # Services
  /\ LET svc == FirstOf(Services \ has.checked)
     IN \E exists \in BOOLEAN :
          has' = [has EXCEPT !.checked = @ \cup {svc},
                             !.available = IF exists THEN @ \cup {svc} ELSE @]
  /\ UNCHANGED mvars
  /\ UNCHANGED <<script, answer, interrupted, inst, frames>>
  /\ UNCHANGED wvars

\* one round of the second loop: start_port_forward(...), True unless Popen
\* raised
StartPortForward ==
  /\ pc = "start_forwards"
  /\ ToForward(has) \ has.forwarded # {}
  /\ LET svc == FirstOf(ToForward(has) \ has.forwarded)
     IN \E ok \in BOOLEAN :
          has' = [has EXCEPT !.forwarded = @ \cup {svc},
                             !.started = IF ok THEN @ \cup {svc} ELSE @]
  /\ UNCHANGED mvars
  /\ UNCHANGED <<script, answer, interrupted, inst, frames>>
  /\ UNCHANGED wvars

\* the end of a loop: `if not available_services: sys.exit(1)`,
\* `if not started_services: sys.exit(1)`, and the step after the third loop
LoopDone ==
  /\ script = "start-port-forwards"
  /\ wpc = "idle"
  /\ \/ /\ pc = "check_services" /\ has.checked = Services
        /\ IF has.available = {}
           THEN pc' = "exit" /\ exitCode' = 1
           ELSE pc' = DeployStepAfter(script, pc) /\ UNCHANGED exitCode
     \/ /\ pc = "start_forwards" /\ ToForward(has) \ has.forwarded = {}
        /\ IF has.started = {}
           THEN pc' = "exit" /\ exitCode' = 1
           ELSE pc' = DeployStepAfter(script, pc) /\ UNCHANGED exitCode
     \/ /\ pc = "probe_urls" /\ has.started \ has.probed = {}
        /\ pc' = DeployStepAfter(script, pc) /\ UNCHANGED exitCode
  /\ UNCHANGED <<applied, gates>>
  /\ UNCHANGED wvars
  /\ UNCHANGED others

\* one round of the third loop begins: check_url(url, display_name)
ProbeCall ==
  /\ pc = "probe_urls"
  /\ wpc = "idle"
  /\ has.started \ has.probed # {}
  /\ has' = [has EXCEPT !.probed = @ \cup {FirstOf(has.started \ has.probed)}]
  /\ kind' = "check_url"
  /\ timeout' = ProbeAttempts
  /\ wpc' = "init"
  /\ world' \in Worlds(kind')
  /\ UNCHANGED <<elapsed, attempt, outcome, evals, raised, sleeps, slept,
                 clock, sinceEval, gap, printed, ready0, seen, said>>
  /\ UNCHANGED mvars
  /\ UNCHANGED <<script, answer, interrupted, inst, frames>>

\* check_url returns: `accessible.append(...)` when it was True
ProbeReturn ==
  /\ pc = "probe_urls"
  /\ wpc = "done"
  /\ has' = [has EXCEPT !.accessible =
               IF outcome = "Ready" THEN @ \cup {LastOf(has.probed)} ELSE @]
  /\ wpc' = "idle"
  /\ UNCHANGED elapsed
  /\ attempt' = 0 /\ outcome' = "None" /\ evals' = 0
  /\ raised' = FALSE /\ sleeps' = 0 /\ slept' = 0 /\ clock' = 0
  /\ sinceEval' = 0 /\ gap' = 0 /\ printed' = -1
  /\ world' = NoWorld /\ ready0' = FALSE /\ seen' = NoWorld
  /\ said' = "none"
  /\ UNCHANGED <<kind, timeout>>
  /\ UNCHANGED mvars
  /\ UNCHANGED <<script, answer, interrupted, inst, frames>>

\* `while True: time.sleep(60)` until Ctrl-C; main() returns, exit status 0
KeepAlive ==
  /\ pc = "keep_alive"
  /\ interrupted' = TRUE
  /\ pc' = "exit"
  /\ exitCode' = 0
  /\ UNCHANGED <<applied, gates>>
  /\ UNCHANGED wvars
  /\ UNCHANGED <<script, answer, has, inst, frames>>

(* ------------------ main() of apply-network-policies ------------------ *)

\* what may be typed at 'Enter your choice (1-5)'
ChoiceChars == {"1", "2", "3", "4", "5", "6", " "}
Choices == SeqsUpTo(ChoiceChars, MaxAnswerLen)

\* a menu whose last branch applies everything
ChoiceCommandsDefault(c) ==
  CASE c = <<"1">> -> <<"apply_all">>
    [] c = <<"2">> -> <<"apply_deny_all">>
    [] c = <<"3">> -> <<"apply_allow">>
    [] c = <<"4">> -> <<"apply_cilium_l7">>
    [] c = <<"5">> -> <<"delete_networkpolicies", "delete_ciliumnetworkpolicies">>
    [] OTHER -> <<"apply_all">>

\* the kubectl commands of each branch of the if/elif chain; none for the
\* else branch
ChoiceCommands(c) ==
  CASE c = <<"1">> -> <<"apply_all">>
    [] c = <<"2">> -> <<"apply_deny_all">>
    [] c = <<"3">> -> <<"apply_allow">>
    [] c = <<"4">> -> <<"apply_cilium_l7">>
    [] c = <<"5">> -> <<"delete_networkpolicies", "delete_ciliumnetworkpolicies">>
    [] OTHER -> <<>>

\* nothing looked at yet
NoPolicies == [directory |-> FALSE, yaml |-> FALSE]

\* check_policies_directory() and list_policies(): a missing directory is
\* created and the script exits with 1, as it does when no *.yaml is there
CheckPolicies ==
  /\ pc = "check_policies"
  /\ \E d \in BOOLEAN : \E y \in BOOLEAN :
       /\ y => d
       /\ has' = [directory |-> d, yaml |-> y]
       /\ IF d /\ y
          THEN pc' = DeployStepAfter(script, pc) /\ UNCHANGED exitCode
          ELSE pc' = "exit" /\ exitCode' = 1
  /\ UNCHANGED <<applied, gates>>
  /\ UNCHANGED <<script, answer, interrupted, inst, frames>>
  /\ UNCHANGED wvars

\* `choice = input(...).strip()` and the if/elif chain: Ctrl-C at the prompt
\* is sys.exit(0), end of input raises into the handler of __main__ (exit
\* 1), an unknown choice is sys.exit(1); the result of an apply
\* only chooses the message, the results of the two deletes are dropped
Choose ==
  /\ pc = "choose"
  /\ \/ /\ interrupted' = TRUE
        /\ pc' = "exit" /\ exitCode' = 0
        /\ UNCHANGED <<answer, applied>>
     \/ /\ pc' = "exit" /\ exitCode' = 1
        /\ UNCHANGED <<answer, applied, interrupted>>
     \/ \E a \in Choices :
          /\ answer' = Append(answer, a)
          /\ UNCHANGED interrupted
          /\ LET cmds == ChoiceCommands(Strip(a))
             IN IF cmds # <<>>
                THEN /\ \E r \in (IF Len(cmds) = 1 THEN {"ok", "failed"}
                                  ELSE {"unread"}) :
                          applied' = applied \o
                                     [i \in 1..Len(cmds) |-> Cmd(cmds[i], r)]
                     /\ pc' = DeployStepAfter(script, pc)
                     /\ UNCHANGED exitCode
                ELSE /\ pc' = "exit" /\ exitCode' = 1
                     /\ UNCHANGED applied
  /\ UNCHANGED gates
  /\ UNCHANGED <<script, has, inst, frames>>
  /\ UNCHANGED wvars

\* what each script knows before its first step
InitialFacts(s) ==
  CASE s = "start-port-forwards" -> NoForwards
    [] s = "apply-network-policies" -> NoPolicies
    [] OTHER -> NoFacts

(* ---------------- the helper scripts, one run each -------------------- *)

InitTools ==
  /\ script \in ToolScripts
  /\ pc = Head(DeployOrder(script))
  /\ exitCode = -1
  /\ applied = <<>>
  /\ gates = <<>>
  /\ kind = "wait_for_pod"
  /\ timeout = DefaultTimeout
  /\ wpc = "idle"
  /\ FreshWait
  /\ world = NoWorld
  /\ ready0 = FALSE
  /\ seen = NoWorld
  /\ answer = NoAnswer
  /\ has = InitialFacts(script)
  /\ interrupted = FALSE
  /\ NoPair

NextTools ==
  \/ ContinuePrompt \/ CheckInstalled \/ StartService \/ DeployGrafana
  \/ FindAppPod \/ RunTest \/ TestAborted
  \/ CheckServiceExists \/ StartPortForward \/ LoopDone
  \/ ProbeCall \/ ProbeReturn \/ KeepAlive
  \/ CheckPolicies \/ Choose
  \/ DeployRequired \/ DeployIgnored \/ DeployPause
  \/ DeployCallWait \/ DeployReturnWait \/ DeployFinish
  \/ Enter \/ LoopTest \/ Evaluate \/ Sleep

SpecTools == InitTools /\ [][NextTools]_vars

(* --------------------- two waits side by side -------------------------- *)

\* Two calls of a wait function run at the same time (two threads, or two
\* scripts started together), each polling its own check.  inst[i] holds
\* what call i was given and what it did; frames[j] is the `elapsed` local
\* of stack frame j.

\* the pairs of functions that are run together
PairKinds == {<<"check_pods_ready", "wait_for_pods">>,
              <<"wait_for_pods", "wait_for_pod">>}

\* both calls counting in one variable, as a module-level `elapsed` would
LocalsShared(i) == 1

\* the stack frame of call i: every call has its own
Locals(i) == i

\* `elapsed = 0`
PairEnter(i) ==
  /\ pc = "pair"
  /\ inst[i].wpc = "init"
  /\ frames' = [frames EXCEPT ![Locals(i)] = InitialElapsed(@)]
  /\ inst' = [inst EXCEPT ![i].wpc = "test"]
  /\ UNCHANGED <<script, answer, has, interrupted>>
  /\ UNCHANGED wvars
  /\ UNCHANGED mvars

\* `while elapsed < timeout`, and the timeout line with `return False`
PairTest(i) ==
  /\ pc = "pair"
  /\ inst[i].wpc = "test"
  /\ IF LoopGuard(inst[i].kind, frames[Locals(i)], 0, inst[i].timeout)
     THEN inst' = [inst EXCEPT ![i].wpc = "eval"]
     ELSE inst' = [inst EXCEPT ![i].wpc = "done", ![i].outcome = "TimedOut"]
  /\ UNCHANGED <<frames, script, answer, has, interrupted>>
  /\ UNCHANGED wvars
  /\ UNCHANGED mvars

\* one evaluation of call i's own check
PairEvaluate(i) ==
  /\ pc = "pair"
  /\ inst[i].wpc = "eval"
  /\ \E w \in Worlds(inst[i].kind) :
       inst' = [inst EXCEPT
         ![i].obs = Append(@, w),
         ![i].evals = @ + 1,
         ![i].wpc = IF w.exc
                    THEN (IF Swallows(inst[i].kind) THEN "sleep" ELSE "done")
                    ELSE (IF IsReady(inst[i].kind, w) THEN "done" ELSE "sleep"),
         ![i].outcome = IF w.exc
                        THEN (IF Swallows(inst[i].kind) THEN @ ELSE "Raised")
                        ELSE (IF IsReady(inst[i].kind, w) THEN "Ready" ELSE @)]
  /\ UNCHANGED <<frames, script, answer, has, interrupted>>
  /\ UNCHANGED wvars
  /\ UNCHANGED mvars

\* the progress line of check_pods_ready, time.sleep(5), `elapsed += 5`
PairSleep(i) ==
  /\ pc = "pair"
  /\ inst[i].wpc = "sleep"
  /\ inst' = [inst EXCEPT
       ![i].nOk = @ /\ (Prints(inst[i].kind) =>
                          frames[Locals(i)] = inst[i].sleeps * Interval(inst[i].kind)),
       ![i].sleeps = @ + 1,
       ![i].wpc = "test"]
  /\ frames' = [frames EXCEPT ![Locals(i)] = @ + ElapsedStep(inst[i].kind)]
  /\ UNCHANGED <<script, answer, has, interrupted>>
  /\ UNCHANGED wvars
  /\ UNCHANGED mvars

InitPair ==
  /\ pc = "pair"
  /\ exitCode = -1
  /\ applied = <<>>
  /\ gates = <<>>
  /\ kind = "wait_for_pods"
  /\ timeout = 0
  /\ wpc = "idle"
  /\ FreshWait
  /\ world = NoWorld
  /\ ready0 = FALSE
  /\ seen = NoWorld
  /\ script = "none"
  /\ answer = NoAnswer
  /\ has = NoFacts
  /\ interrupted = FALSE
  /\ \E ks \in PairKinds : \E t1 \in 0..MaxPairTimeout : \E t2 \in 0..MaxPairTimeout :
       inst = [i \in 1..2 |->
                 [kind |-> ks[i], timeout |-> IF i = 1 THEN t1 ELSE t2,
                  wpc |-> "init", evals |-> 0, sleeps |-> 0,
                  outcome |-> "None", obs |-> <<>>, nOk |-> TRUE]]
  /\ frames = [i \in 1..2 |-> 0]

NextPair ==
  \E i \in 1..2 : PairEnter(i) \/ PairTest(i) \/ PairEvaluate(i) \/ PairSleep(i)

SpecPair == InitPair /\ [][NextPair]_vars

\* What one call of the loop does when it runs with nothing beside it and
\* its check returns rs[1], rs[2], ...: the outcome and the number of
\* evaluations, from counter value e after n evaluations.
RECURSIVE Alone(_, _, _, _, _)
Alone(k, t, rs, e, n) ==
  IF ~LoopGuard(k, e, 0, t) THEN [outcome |-> "TimedOut", evals |-> n]
  ELSE IF n >= Len(rs) THEN [outcome |-> "None", evals |-> n]
  ELSE IF rs[n + 1].exc
       THEN (IF Swallows(k) THEN Alone(k, t, rs, e + ElapsedStep(k), n + 1)
             ELSE [outcome |-> "Raised", evals |-> n + 1])
  ELSE IF IsReady(k, rs[n + 1]) THEN [outcome |-> "Ready", evals |-> n + 1]
  ELSE Alone(k, t, rs, e + ElapsedStep(k), n + 1)

\* s is an initial part of t
IsPrefix(s, t) == Len(s) <= Len(t) /\ SubSeq(t, 1, Len(s)) = s

\* no evaluation of the sequence raised
NonRaising(rs) == \A j \in 1..Len(rs) : ~rs[j].exc

\* the four commands every deploy is said to run, in their order
FourCommands == <<"build", "load", "apply_deployment", "apply_service">>
\* those of them each script has: deploy.py neither builds nor loads an image
DeployChain(s) ==
  IF s = "deploy" THEN <<"apply_deployment", "apply_service">> ELSE FourCommands

\* command c has been issued
Issued(c) == \E i \in 1..Len(applied) : applied[i].cmd = c

\* the commands of chain issued so far, in the order they were issued
ChainRun(chain) ==
  LET among == SelectSeq(applied,
                 LAMBDA e : \E j \in 1..Len(chain) : chain[j] = e.cmd)
  IN [i \in 1..Len(among) |-> among[i].cmd]

\* the readiness wait of the script has begun (in deploy.py it is the
\* `kubectl wait` on the deployment)
WaitBegun == wpc # "idle" \/ gates # <<>> \/ Issued("wait_deployment")

\* The commands of chain run in the order of chain, the wait begins only
\* after all of them succeeded, and a failed one is the last thing the script
\* does: exit status 1, no later command, no wait, no banner.
OrderAndExit(chain) ==
  /\ IsPrefix(ChainRun(chain), chain)
  /\ WaitBegun =>
       /\ ChainRun(chain) = chain
       /\ \A i \in 1..Len(applied) :
            (\E j \in 1..Len(chain) : chain[j] = applied[i].cmd)
              => applied[i].result = "ok"
  /\ \A i \in 1..Len(applied) :
       (/\ \E j \in 1..Len(FourCommands) : FourCommands[j] = applied[i].cmd
        /\ applied[i].result = "failed")
         => /\ i = Len(applied)
            /\ pc = "exit" /\ exitCode = 1
            /\ ~WaitBegun
            /\ said # "banner"

\* the place of command c in the log, 0 when it was not issued
IssuedAt(c) ==
  IF Issued(c) THEN CHOOSE i \in 1..Len(applied) : applied[i].cmd = c ELSE 0

\* the names of the commands issued so far, in order
Names == [i \in 1..Len(applied) |-> applied[i].cmd]

\* apply-network-policies issues a command only with the directory there, a
\* .yaml file in it and a choice of the menu; a run that issued none ended
\* with status 1, or with cancelStatus when it was interrupted at the prompt;
\* a run on a valid choice issued the commands of that choice, then the
\* listing, and ended with status 0
PolicyGate(cancelStatus) ==
  /\ applied # <<>> =>
       /\ has.directory /\ has.yaml
       /\ answer # NoAnswer
       /\ Strip(answer[1]) \in {<<"1">>, <<"2">>, <<"3">>, <<"4">>, <<"5">>}
  /\ (pc = "exit" /\ applied = <<>>) =>
       exitCode = (IF interrupted THEN cancelStatus ELSE 1)
  /\ (pc = "exit" /\ applied # <<>>) =>
       /\ Names = ChoiceCommands(Strip(answer[1])) \o <<"show_current">>
       /\ exitCode = 0

(* ============================== claims ================================ *)

PodFunctionKinds == {"check_pods_ready", "wait_for_pods", "wait_for_pod"}

\* C1: in every readiness wait over pods, an evaluation of the check that
\* raises ends the wait at once with that error, after evaluations that were
\* all false before it: once an evaluation has raised, the wait is over, its
\* result is the error, and it slept once per earlier evaluation.
C1_ErrorPropagates ==
  (kind \in WhileKinds /\ raised) =>
    (wpc = "done" /\ outcome = "Raised" /\ sleeps = evals - 1)

\* C2: a wait called with timeout 0 evaluates the check exactly once and
\* returns without sleeping.
C2_ZeroTimeoutOneEvaluation ==
  (kind \in PodFunctionKinds /\ timeout = 0 /\ wpc = "done") =>
    (evals = 1 /\ slept = 0 /\ outcome \in {"Ready", "TimedOut"})

\* C5: a pod readiness wait ends Ready only on an evaluation at which every
\* container status reported is the word true.
C5_ReadyOnlyIfAllTrue ==
  (kind \in PodFunctionKinds \cup {"full_stack_inline"} /\ outcome = "Ready") =>
    \A i \in 1..Len(seen.statuses) : seen.statuses[i] = "true"

\* C6: when the check holds on its first evaluation, the wait returns Ready
\* and no sleep has occurred since the wait step began, whatever the timeout.
C6_FastPath ==
  (wpc = "done" /\ ready0) => (outcome = "Ready" /\ evals = 1 /\ slept = 0)

\* C7: a check that is false on its first k-1 evaluations and true on the
\* k-th, with k*interval <= timeout, gives Ready after exactly k evaluations
\* and k-1 sleeps of one interval each: a Ready wait has slept once per false
\* evaluation, and a wait never gives up while its next evaluation, the
\* k-th, would still satisfy k*interval <= timeout.
C7_ReadyAfterKEvaluations ==
  kind \in WhileKinds =>
    /\ outcome = "Ready" =>
         /\ sleeps = evals - 1
         /\ slept = Settle(kind) + (evals - 1) * Interval(kind)
    /\ outcome = "TimedOut" => (evals + 1) * Interval(kind) > timeout

\* C7 happens: wait_for_pod saw false, false, true within its budget
C7_Witness ==
  /\ kind = "wait_for_pod" /\ outcome = "Ready" /\ ~raised
  /\ evals = 3 /\ 3 * Interval(kind) <= timeout /\ slept = 10

\* C8: a wait whose check never holds returns TimedOut when the time since
\* the wait began, evaluations included, is at least the timeout and less
\* than the timeout plus one interval.
C8_TimedOutWithinOneInterval ==
  (kind \in {"wait_for_pods", "check_service", "cilium_inline"}
     /\ outcome = "TimedOut") =>
    (clock >= timeout /\ clock < timeout + Interval(kind))

\* C9: a wait whose check never holds makes n evaluations with
\* timeout/interval <= n <= timeout/interval + 1 and returns TimedOut.
C9_EvaluationCount ==
  /\ outcome = "TimedOut" =>
       /\ timeout <= evals * Interval(kind)
       /\ evals * Interval(kind) <= timeout + Interval(kind)
  /\ (wpc = "done" /\ outcome # "Ready" /\ (Swallows(kind) \/ ~raised)) =>
       outcome = "TimedOut"

\* C9 happens: check_service with timeout 5 gave up after 5 evaluations
C9_Witness ==
  kind = "check_service" /\ timeout = 5 /\ outcome = "TimedOut" /\ evals = 5

\* C10: between two consecutive evaluations of one wait exactly one sleep of
\* the full interval occurs, however the earlier evaluation failed.
C10_OneSleepBetweenEvaluations ==
  evals >= 2 => gap = Interval(kind)

\* C3: the script exits with status 0 only if every readiness wait it
\* performed ended Ready.
C3_ExitZeroOnlyIfAllReady ==
  exitCode = 0 => \A i \in 1..Len(gates) : gates[i].outcome = "Ready"

\* C4: the Prometheus manifest is applied only after the wait for the
\* football-app pods ended Ready, and the Grafana manifest only after the
\* wait for the Prometheus pods ended Ready.
C4_SequencingGate ==
  \A i \in 1..Len(applied) :
    /\ applied[i] = Manifest("apply_prometheus") =>
         \E j \in 1..Len(gates) :
           gates[j] = [step |-> "wait_app", outcome |-> "Ready"]
    /\ applied[i] = Manifest("apply_grafana") =>
         \E j \in 1..Len(gates) :
           gates[j] = [step |-> "wait_prometheus", outcome |-> "Ready"]

\* C11: every readiness wait ends after a number of evaluations bounded by
\* timeout and interval, and, when no evaluation fails to return, it keeps
\* its caller no longer than the timeout budget.  Stated for the timeouts
\* that are a whole number of intervals, as every call in the scripts is.
C11_TerminatesWithinBudget ==
  (~raised /\ timeout % Interval(kind) = 0) =>
    /\ evals * Interval(kind) <= timeout + Interval(kind)
    /\ clock - Settle(kind) <= timeout

\* C16: every wait call starts with elapsed = 0 and its full budget, and its
\* outcome and number of evaluations follow from its own timeout, interval
\* and check results, whatever waits ran before it and however they ended:
\* in every call of main() the counter equals what this call slept, a
\* TimedOut call made exactly the evaluations of a fresh wait, and a Ready
\* call was still inside its own budget.
C16_StatelessBetweenCalls ==
  wpc \in {"test", "eval", "sleep", "done"} =>
    /\ kind \in WhileKinds => elapsed = sleeps * Interval(kind)
    /\ outcome = "TimedOut" =>
         /\ timeout <= evals * Interval(kind)
         /\ (evals - 1) * Interval(kind) < timeout
    /\ outcome = "Ready" => (evals - 1) * Interval(kind) < timeout

\* C16 happens: the third wait_for_pods of main(), after one wait that timed
\* out and one that was ready, uses its whole budget of 24 evaluations
C16_Witness ==
  /\ Len(gates) = 2
  /\ gates[1].outcome = "TimedOut" /\ gates[2].outcome = "Ready"
  /\ pc = "wait_grafana" /\ wpc = "done"
  /\ outcome = "TimedOut" /\ evals = 24

\* C12: a wait that ends TimedOut has printed a timeout message before the
\* script goes on to its next step; no wait times out silently.
C12_TimeoutIsAnnounced ==
  outcome = "TimedOut" => said = "timeout"

\* C13: a wait ends in exactly one outcome, Ready only when the check was
\* seen true and TimedOut only when the budget is used up, an error leaves
\* the wait only when an evaluation raised (never for a false condition), and
\* once the wait has its outcome the check is not evaluated again.
C13_TwoOutcomesAbsorbing ==
  /\ [](/\ (wpc = "done") <=> (outcome # "None")
        /\ outcome = "Ready" => (~seen.exc /\ IsReady(kind, seen))
        /\ outcome = "TimedOut" =>
             (IF kind \in WhileKinds THEN elapsed >= timeout
              ELSE attempt >= timeout)
        /\ outcome = "Raised" => (raised /\ ~Swallows(kind)))
  /\ [][outcome # "None" => (evals' = evals /\ outcome' = outcome)]_vars

\* C13 happens: check_pods_ready used up its budget on three false results
C13_Witness ==
  /\ kind = "check_pods_ready" /\ outcome = "TimedOut" /\ wpc = "done"
  /\ evals = 3 /\ ~raised /\ elapsed >= timeout

\* C18: the loop of deploy-with-monitoring prints its ready line and stops
\* only on an evaluation whose output holds at least one container status,
\* all of them "true"; empty output counts as not ready.
C18_ReadyNeedsAStatus ==
  (kind = "with_monitoring_inline" /\ said = "ready") =>
    /\ Len(seen.statuses) >= 1
    /\ \A i \in 1..Len(seen.statuses) : seen.statuses[i] = "true"

\* C14: the progress line has no effect on control flow: check_pods_ready
\* (which prints) and wait_for_pods (which does not), given the same timeout
\* and the same non-raising results of the check, make the same evaluations,
\* the same sleeps and end with the same outcome; and the N of every
\* "Waiting... (N seconds)" is what the call has slept so far.
C14_PrintDoesNotSteer ==
  LET a == inst[1]
      b == inst[2]
  IN /\ a.nOk
     /\ (/\ a.kind = "check_pods_ready" /\ b.kind = "wait_for_pods"
         /\ a.wpc = "done" /\ b.wpc = "done"
         /\ a.timeout = b.timeout
         /\ NonRaising(a.obs) /\ NonRaising(b.obs)
         /\ (IsPrefix(a.obs, b.obs) \/ IsPrefix(b.obs, a.obs)))
        => /\ a.obs = b.obs
           /\ a.evals = b.evals
           /\ a.sleeps = b.sleeps
           /\ a.outcome = b.outcome

\* C14 happens: both ran out of a budget of 6 on the same two results, each
\* after two evaluations and two sleeps
C14_Witness ==
  /\ inst[1].kind = "check_pods_ready" /\ inst[2].kind = "wait_for_pods"
  /\ inst[1].wpc = "done" /\ inst[2].wpc = "done"
  /\ inst[1].timeout = 6 /\ inst[2].timeout = 6
  /\ inst[1].obs = inst[2].obs /\ NonRaising(inst[1].obs)
  /\ inst[1].outcome = "TimedOut" /\ inst[1].sleeps = 2 /\ inst[1].evals = 2

\* C17: two waits that poll two different checks at the same time each end,
\* under every interleaving of their steps, with the outcome and after the
\* number of evaluations they would have had alone on the same results.
C17_SideBySideAsAlone ==
  \A i \in 1..2 :
    inst[i].wpc = "done" =>
      Alone(inst[i].kind, inst[i].timeout, inst[i].obs, 0, 0) =
        [outcome |-> inst[i].outcome, evals |-> inst[i].evals]

\* C17 happens: wait_for_pods became ready at its second evaluation while
\* wait_for_pod beside it ran out of its budget after two
C17_Witness ==
  /\ inst[1].kind = "wait_for_pods" /\ inst[2].kind = "wait_for_pod"
  /\ inst[1].wpc = "done" /\ inst[2].wpc = "done"
  /\ inst[1].outcome = "Ready" /\ inst[1].evals = 2
  /\ inst[2].outcome = "TimedOut" /\ inst[2].evals = 2

\* C15: a KeyboardInterrupt delivered while a readiness wait is in progress,
\* during an evaluation of the check or during a sleep, aborts the wait at
\* once: the script prints its interrupted message and exits with status 1,
\* with no further evaluation or sleep.
C15_InterruptAborts ==
  interrupted => (pc = "exit" /\ exitCode = 1 /\ said = "interrupted")

\* C19 as stated: in every deploy script the required commands run in the
\* order build, load, apply deployment, apply service, then the readiness
\* wait, and a failure of one of the four exits with status 1 with no later
\* step.
C19_FixedOrder ==
  script \in DeployScripts => OrderAndExit(FourCommands)

\* C19: deploy-with-cilium, deploy-with-monitoring and deploy-full-stack run
\* build, load, apply deployment, apply service and then the readiness wait,
\* in this order; deploy.py builds and loads no image and runs apply
\* deployment, apply service and then its wait.  In all four a failure of one
\* of these commands exits with status 1 and no later command, wait or
\* banner follows.
C19_OrderPerScript ==
  script \in DeployScripts => OrderAndExit(DeployChain(script))

\* C19 happens: deploy.py applied the deployment with no image built, the
\* service manifest failed, and the script left with status 1
C19_Witness ==
  /\ script = "deploy" /\ pc = "exit" /\ exitCode = 1
  /\ Len(applied) >= 2
  /\ applied[Len(applied)] = Cmd("apply_service", "failed")
  /\ applied[Len(applied) - 1] = Cmd("apply_deployment", "ok")
  /\ ~Issued("build")

\* C20: setup-cilium deletes an existing cluster exactly when the answer is
\* 'y' or 'Y'; any other answer exits with status 1 with neither a delete nor
\* a create issued; after a delete the create is the next command whether
\* the delete succeeded or not; a failed create exits with status 1, and no
\* Cilium install command is issued without a successful create before it.
C20_DeleteOnlyOnYes ==
  script = "setup-cilium" =>
    /\ Issued("delete_cluster") <=>
         (has.cluster /\ answer \in {<< <<"y">> >>, << <<"Y">> >>})
    /\ (answer # NoAnswer /\ answer[1] \notin {<<"y">>, <<"Y">>}) =>
         /\ pc = "exit" /\ exitCode = 1
         /\ ~Issued("delete_cluster") /\ ~Issued("create_cluster")
    /\ \A i \in 1..Len(applied) :
         /\ applied[i].cmd = "delete_cluster" =>
              IF i = Len(applied) THEN pc = "create_cluster"
              ELSE applied[i + 1].cmd = "create_cluster"
         /\ applied[i] = Cmd("create_cluster", "failed") =>
              (i = Len(applied) /\ pc = "exit" /\ exitCode = 1)
         /\ applied[i].cmd \in InstallCmds =>
              \E j \in 1..(i - 1) : applied[j] = Cmd("create_cluster", "ok")

\* C20 happens: the user typed 'Y', the delete failed, the cluster was
\* created all the same and Cilium was installed with Helm
C20_Witness ==
  /\ script = "setup-cilium"
  /\ answer = << <<"Y">> >>
  /\ \E i \in 1..(Len(applied) - 1) :
       /\ applied[i] = Cmd("delete_cluster", "failed")
       /\ applied[i + 1] = Cmd("create_cluster", "ok")
  /\ Issued("helm_install")

\* C22: in deploy-full-stack setup-cilium is run exactly when the cluster is
\* missing or Cilium was not detected, and setup-monitoring exactly when the
\* monitoring namespace was not detected (always when the cluster is
\* missing); Cilium setup comes before monitoring setup, which comes before
\* the image build, and a failed setup exits with status 1 with no build.
C22_SetupWhenMissing ==
  script = "deploy-full-stack" =>
    /\ pc \notin {"probe", "setup_cilium"} =>
         (Issued("setup_cilium") <=> (~has.cluster \/ ~has.cilium))
    /\ (/\ pc \notin {"probe", "setup_cilium", "setup_monitoring"}
        /\ Cmd("setup_cilium", "failed") \notin {applied[i] : i \in 1..Len(applied)})
         => /\ Issued("setup_monitoring") <=> ~has.monitoring
            /\ ~has.cluster => (Issued("setup_cilium") /\ Issued("setup_monitoring"))
    /\ (Issued("setup_cilium") /\ Issued("setup_monitoring")) =>
         IssuedAt("setup_cilium") < IssuedAt("setup_monitoring")
    /\ Issued("build") =>
         /\ IssuedAt("setup_cilium") < IssuedAt("build")
         /\ IssuedAt("setup_monitoring") < IssuedAt("build")
    /\ \A i \in 1..Len(applied) :
         applied[i] \in {Cmd("setup_cilium", "failed"), Cmd("setup_monitoring", "failed")}
           => /\ i = Len(applied)
              /\ pc = "exit" /\ exitCode = 1
              /\ ~Issued("build")

\* C22 happens: the cluster was there without Cilium but with monitoring:
\* setup-cilium ran, setup-monitoring did not, and the image was built
C22_Witness ==
  /\ script = "deploy-full-stack"
  /\ has.cluster /\ ~has.cilium /\ has.monitoring
  /\ Issued("setup_cilium") /\ ~Issued("setup_monitoring")
  /\ Issued("build")

\* C21: setup-monitoring and fix-grafana-complete issue no command before
\* the user answered the 'Continue?' prompt with 'yes' or 'y'; any other
\* answer, and an interrupt at the prompt, end the script with exit status 0
\* and no command issued.
C21_NothingBeforeYes ==
  script \in PromptScripts =>
    /\ applied # <<>> =>
         (answer # NoAnswer /\ Strip(Lower(answer[1])) \in YesWords)
    /\ (answer # NoAnswer /\ Strip(Lower(answer[1])) \notin YesWords) =>
         (pc = "exit" /\ exitCode = 0 /\ applied = <<>>)
    /\ interrupted => (pc = "exit" /\ exitCode = 0 /\ applied = <<>>)

\* C21 happens: fix-grafana-complete was answered 'yes' and went as far as
\* its port-forward
C21_Witness ==
  /\ script = "fix-grafana-complete"
  /\ answer = << <<"y", "e", "s">> >>
  /\ Issued("remove_grafana") /\ Issued("port_forward")

\* C23: in setup-monitoring Grafana is started only after Prometheus was
\* started and answered its HTTP check with 200, and the data source is
\* added only after Grafana answered 200; when Prometheus is missing or fails
\* its check the script exits with status 1 and Grafana is never started; a
\* data source that could not be added leaves the exit status 0.
C23_AnnouncedOrder ==
  script = "setup-monitoring" =>
    /\ Issued("start_grafana") =>
         /\ 0 < IssuedAt("start_prometheus")
         /\ IssuedAt("start_prometheus") < IssuedAt("check_prometheus")
         /\ applied[IssuedAt("check_prometheus")].result = "ok"
         /\ IssuedAt("check_prometheus") < IssuedAt("start_grafana")
    /\ Issued("add_datasource") =>
         /\ 0 < IssuedAt("start_grafana")
         /\ IssuedAt("start_grafana") < IssuedAt("check_grafana")
         /\ applied[IssuedAt("check_grafana")].result = "ok"
         /\ IssuedAt("check_grafana") < IssuedAt("add_datasource")
    /\ (\/ (said = "not_found" /\ ~Issued("start_prometheus"))
        \/ (Issued("check_prometheus")
              /\ applied[IssuedAt("check_prometheus")].result = "failed"))
         => (pc = "exit" /\ exitCode = 1 /\ ~Issued("start_grafana"))
    /\ (Issued("add_datasource") /\ pc = "exit") => exitCode = 0

\* C23 happens: both services came up, the data source could not be added,
\* and the script ended with status 0
C23_Witness ==
  /\ script = "setup-monitoring"
  /\ Issued("add_datasource")
  /\ applied[IssuedAt("add_datasource")].result = "failed"
  /\ pc = "exit" /\ exitCode = 0

\* C24: test-network-policies creates no test pod and no namespace unless an
\* application pod was found (else exit status 1); once the creation of
\* test-ns was issued, its deletion is issued before the script ends, on
\* normal completion as after an interrupt or an unexpected exception; on
\* those two paths the deletes of test-allowed and test-blocked are issued
\* too and the exit status is 1.
C24_NamespaceCleanedUp ==
  script = "test-network-policies" =>
    /\ applied # <<>> => has = [pod |-> TRUE]
    /\ has = [pod |-> FALSE] => (pc = "exit" /\ exitCode = 1 /\ applied = <<>>)
    /\ (pc = "exit" /\ Issued("create_namespace")) =>
         \E j \in 1..Len(applied) :
           /\ IssuedAt("create_namespace") < j
           /\ applied[j].cmd = "delete_namespace"
    /\ said \in {"interrupted", "error"} =>
         /\ pc = "exit" /\ exitCode = 1
         /\ Issued("delete_pod_allowed") /\ Issued("delete_pod_blocked")

\* C24 happens: Ctrl-C during the cross-namespace test, after the namespace
\* was created and before the test's own delete
C24_Witness ==
  /\ script = "test-network-policies"
  /\ interrupted /\ pc = "exit" /\ exitCode = 1
  /\ Issued("create_namespace") /\ Issued("test_other_ns")
  /\ Issued("delete_pod_allowed")
  /\ applied[Len(applied)].cmd = "delete_namespace"
  /\ IssuedAt("delete_namespace") = Len(applied)

\* C25: in start-port-forwards accessible is a subset of started, started of
\* available, and available of the configured services, at every point: a
\* port-forward is issued only for a service kubectl reported, a URL is
\* probed only for a service whose port-forward was started, the script
\* exits with 1 with no port-forward issued when no service exists, and with
\* 1 with no URL probed when no port-forward was started.
C25_SubsetChain ==
  script = "start-port-forwards" =>
    /\ has.accessible \subseteq has.started
    /\ has.started \subseteq has.available
    /\ has.available \subseteq Services
    /\ has.forwarded \subseteq has.available
    /\ has.probed \subseteq has.started
    /\ (has.checked = Services /\ has.available = {} /\ pc # "check_services")
         => (pc = "exit" /\ exitCode = 1 /\ has.forwarded = {})
    /\ (has.started = {} /\ pc \notin {"check_services", "start_forwards"})
         => (pc = "exit" /\ exitCode = 1 /\ has.probed = {})

\* C25 happens: two of the three services exist, one port-forward started,
\* its URL was probed and did not answer
C25_Witness ==
  /\ script = "start-port-forwards"
  /\ has.available = {"prometheus", "grafana"}
  /\ has.forwarded = has.available
  /\ has.started = {"grafana"}
  /\ has.probed = {"grafana"}
  /\ has.accessible = {}
  /\ pc = "exit" /\ exitCode = 0

\* C26 as stated: apply-network-policies issues a kubectl command only if
\* the directory existed, holds a .yaml file and the choice is one of 1-5;
\* otherwise it exits with status 1 having issued none; a valid choice issues
\* exactly its own commands, then the listing, with exit status 0.
C26_GateOrExitOne ==
  script = "apply-network-policies" => PolicyGate(1)

\* C26: as above, except that Ctrl-C at the prompt, where no choice is made,
\* ends the script with status 0, again with no command issued.
C26_GateOrCancel ==
  script = "apply-network-policies" => PolicyGate(0)

\* C26 happens: choice 2, the apply of deny-all failed, the policies were
\* listed and the script ended with status 0
C26_Witness ==
  /\ script = "apply-network-policies"
  /\ answer = << <<"2">> >>
  /\ applied = <<Cmd("apply_deny_all", "failed"), Cmd("show_current", "unread")>>
  /\ pc = "exit" /\ exitCode = 0

====
